---------------------------- MODULE Spec2Model ----------------------------
(***************************************************************************)
(* A model of the Midifighter Pro main task (midifighterpro.c): the        *)
(* inbound USB-MIDI demultiplexer, the note-state ledger, the analog       *)
(* filter, the bank-switching state machine, the key-to-note emitter, the  *)
(* LED renderer and the watchdog handshake of the main loop.               *)
(*                                                                         *)
(* Bit masks of the source (uint16_t key bitsets, LED patterns) are sets   *)
(* of bit indices: bit k set  <=>  k \in S.                                *)
(***************************************************************************)
EXTENDS Integers, Sequences, FiniteSets, TLC

\* ------------------------------------------------------------------------
\* Program constants
\* ------------------------------------------------------------------------
NOTEON_LOW == 3
NOTEON_HIGH == 127 - NOTEON_LOW
MIDI_ANALOG_NOTE == 100
MIDI_ANALOG_CC == 16
MIDI_DIGITAL_NOTE == 4
MIDI_BASE_NOTE == 36
NUM_ANALOG == 4

\* Bound of the model: packets drained from the endpoint in one tick.
MaxDrain == 2

Notes == 0..127

\* ------------------------------------------------------------------------
\* Helper functions
\* ------------------------------------------------------------------------

\* The product kept in eight bits.
remap_numer_Narrow(value, from, lo, hi) == ((value - from) * (hi - lo)) % 256

\* uint16_t numer = (value - from) * (hi - lo);
remap_numer(value, from, lo, hi) == ((value - from) * (hi - lo)) % 65536

\* uint8_t remap(uint8_t value, uint8_t from, uint8_t to, uint8_t lo, uint8_t hi)
remap(value, from, to, lo, hi) ==
    IF value < from THEN lo
    ELSE IF value > to THEN hi
    ELSE (lo + (remap_numer(value, from, lo, hi) \div (to - from))) % 256

\* Conversion of a 16-bit difference to int16_t.
ToInt16(x) == LET m == x % 65536 IN IF m >= 32768 THEN m - 65536 ELSE m

Abs(x) == IF x < 0 THEN -x ELSE x

Min(S) == CHOOSE x \in S : \A y \in S : x <= y

\* ------------------------------------------------------------------------
\* State
\* ------------------------------------------------------------------------
VARIABLES
    pc,                     \* position in main()'s endless loop / the task
    USB_DeviceState,        \* LUFA device state
    main_watchdog_flag,     \* static bool main_watchdog_flag
    wdt_resets,             \* wdt_reset() calls since the last task call
    g_key_fourbanks_mode,   \* configuration (EEPROM), read-only here
    g_device_mode,
    g_midi_channel,
    g_midi_velocity,
    g_led_keypress_enable,
    g_combos_enable,
    g_rotate_enable,
    invert_slider,          \* channels built with INVERT_SLIDER_n
    input_event,            \* MIDI_EventPacket_t input_event
    drained,                \* packets received in this tick
    g_led_groundfx_counter,
    groundfx_led,           \* last led_groundfx_state() argument
    clocks_seen,            \* Clock messages since the last Start/Stop, mod 24
    g_midi_note_state,      \* the note-state ledger
    ledger_overrun,         \* indices past the ledger's end written so far
    g_exp_analog_prev,
    second_cc_value,        \* static uint8_t second_cc_value
    adc_samples,            \* the four exp_adc_read() results per channel
    g_key_state, g_key_prev_state, g_key_down, g_key_up,
    g_exp_key_state, g_exp_key_prev_state, g_exp_key_down, g_exp_key_up,
    g_key_bank_selected,
    out,                    \* events sent to the host in this tick, in order
    sounding,               \* notes whose last event sent was a Note-On
    last_cc,                \* last primary CC value sent per channel, or -1
    leds,                   \* last led_set_state() argument
    exp_key_led,            \* last exp_set_key_led() argument
    remap_args,             \* arguments of a call of remap() on its own
    remap_result            \* its results for value and the next value

cfgvars == <<g_key_fourbanks_mode, g_device_mode, g_midi_channel,
             g_midi_velocity, g_led_keypress_enable, g_combos_enable,
             g_rotate_enable, invert_slider>>
keyvars == <<g_key_state, g_key_prev_state, g_key_down, g_key_up,
             g_exp_key_state, g_exp_key_prev_state, g_exp_key_down,
             g_exp_key_up>>
demuxvars == <<input_event, drained, g_led_groundfx_counter, clocks_seen,
               ledger_overrun>>
analogvars == <<g_exp_analog_prev, second_cc_value, adc_samples>>
ledvars == <<leds, exp_key_led, groundfx_led>>
remapvars == <<remap_args, remap_result>>
vars == <<remapvars, pc, USB_DeviceState, main_watchdog_flag, wdt_resets, cfgvars,
          keyvars, demuxvars, analogvars, ledvars, g_midi_note_state,
          g_key_bank_selected, out, sounding, last_cc>>

Channels == 0..(NUM_ANALOG - 1)

NoEvent == [Command |-> 0, Data1 |-> 0, Data2 |-> 0, Data3 |-> 0]

\* ------------------------------------------------------------------------
\* Outbound MIDI driver: the events of a tick, in the order they are sent
\* ------------------------------------------------------------------------
NoteEv(note, onoff) ==
    [kind |-> IF onoff THEN "NoteOn" ELSE "NoteOff", ch |-> g_midi_channel,
     d1 |-> note, d2 |-> IF onoff THEN g_midi_velocity ELSE 0]
CCEv(cc, value) ==
    [kind |-> "CC", ch |-> g_midi_channel, d1 |-> cc, d2 |-> value]
RawCCEv(channel, cc, value) ==
    [kind |-> "RawCC", ch |-> channel, d1 |-> cc, d2 |-> value]
FlushEv == [kind |-> "Flush", ch |-> 0, d1 |-> 0, d2 |-> 0]

\* The context threaded through the statements of one tick:
\*   ledger = g_midi_note_state, out = events sent, scc = second_cc_value,
\*   prev = g_exp_analog_prev, bank = g_key_bank_selected.

\* midi_stream_note(pitch, onoff): send the event and record the velocity
\* in the note-state ledger.
midi_stream_note(ctx, note, onoff) ==
    [ctx EXCEPT !.out = Append(@, NoteEv(note, onoff)),
                !.ledger[note] = IF onoff THEN g_midi_velocity ELSE 0]

midi_stream_cc(ctx, cc, value) ==
    [ctx EXCEPT !.out = Append(@, CCEv(cc, value))]

midi_stream_raw_cc(ctx, channel, cc, value) ==
    [ctx EXCEPT !.out = Append(@, RawCCEv(channel, cc, value))]

\* A flush ahead of the events of the tick.
MIDI_Device_Flush_First(ctx) == [ctx EXCEPT !.out = <<FlushEv>> \o @]

MIDI_Device_Flush(ctx) == [ctx EXCEPT !.out = Append(@, FlushEv)]

\* The receiver's view after a sequence of events.
RECURSIVE ApplyOut(_, _)
ApplyOut(snd, evs) ==
    IF evs = <<>> THEN snd
    ELSE LET e == Head(evs) IN
         ApplyOut(IF e.kind = "NoteOn" THEN snd \cup {e.d1}
                  ELSE IF e.kind = "NoteOff" THEN snd \ {e.d1}
                  ELSE snd, Tail(evs))

\* The last value of the primary CC of each analog channel at the receiver.
RECURSIVE ApplyCC(_, _)
ApplyCC(last, evs) ==
    IF evs = <<>> THEN last
    ELSE LET e == Head(evs) IN
         ApplyCC(IF e.kind = "CC"
                    /\ e.d1 \in {MIDI_ANALOG_CC + 2 * i : i \in Channels}
                 THEN [last EXCEPT ![(e.d1 - MIDI_ANALOG_CC) \div 2] = e.d2]
                 ELSE last, Tail(evs))

\* ------------------------------------------------------------------------
\* Digital input drivers (key.h, expansion.h)
\* ------------------------------------------------------------------------
\* key_calc(): edges against the previous tick's bitset.
KeyDownEdges(state, prev) == state \ prev
KeyUpEdges(state, prev) == prev \ state

\* ------------------------------------------------------------------------
\* INPUT MIDI from USB: one iteration of the receive loop
\* ------------------------------------------------------------------------
\* Command 0xF: System Real Time.
RealTimeCounter(ev, counter) ==
    IF ev.Data1 = 248 THEN (counter + 1) % 256
    ELSE IF ev.Data1 = 250 THEN 0
    ELSE IF ev.Data1 = 252 THEN 0
    ELSE counter

\* uint8_t channel = input_event.Data1 & 0x0f;
EventChannel(ev) == ev.Data1 % 16

\* A Note-Off that records the velocity byte it carries.
NoteStateAfter_OffVelocity(ev, ledger) ==
    IF ev.Command \in {8, 9} THEN [ledger EXCEPT ![ev.Data2] = ev.Data3]
    ELSE ledger

\* The switch on the command of a packet on our channel: the entries of
\* the ledger itself after g_midi_note_state[note] = velocity.
NoteStateAfter(ev, ledger) ==
    IF ev.Data2 \notin Notes THEN ledger
    ELSE IF ev.Command = 9 THEN [ledger EXCEPT ![ev.Data2] = ev.Data3]
    ELSE IF ev.Command = 8 THEN [ledger EXCEPT ![ev.Data2] = 0]
    ELSE ledger

\* The switch on the command without the test of the channel.
DemuxLedger_AnyChannel(ev, ledger) ==
    IF ev.Command \in {15, 4, 5, 6, 7} THEN ledger
    ELSE NoteStateAfter(ev, ledger)

DemuxLedger(ev, ledger) ==
    IF ev.Command \in {15, 4, 5, 6, 7} THEN ledger
    ELSE IF EventChannel(ev) = g_midi_channel THEN NoteStateAfter(ev, ledger)
    ELSE ledger

\* The same assignment with uint8_t note above 127: the byte at
\* g_midi_note_state + note lies past the end of the array. What the
\* linker placed there is not known, so the write is recorded by its index.
NoteOverrun(ev, over) ==
    IF ev.Command \in {8, 9} /\ ev.Data2 \notin Notes
    THEN over \cup {ev.Data2} ELSE over

DemuxOverrun(ev, over) ==
    IF ev.Command \in {15, 4, 5, 6, 7} THEN over
    ELSE IF EventChannel(ev) = g_midi_channel THEN NoteOverrun(ev, over)
    ELSE over

DemuxCounter(ev, counter) ==
    IF ev.Command = 15 THEN RealTimeCounter(ev, counter) ELSE counter

\* History of the clock: Clock messages received since the last Start/Stop.
DemuxClocks(ev, n) ==
    IF ev.Command = 15 /\ ev.Data1 = 248 THEN (n + 1) % 24
    ELSE IF ev.Command = 15 /\ ev.Data1 \in {250, 252} THEN 0
    ELSE n

\* ------------------------------------------------------------------------
\* OUTPUT events from the EXPANSION ports
\* ------------------------------------------------------------------------
ExpansionKey(ctx, i, down, up) ==
    LET c1 == IF i \in down
              THEN midi_stream_note(ctx, MIDI_DIGITAL_NOTE + i, TRUE) ELSE ctx
    IN IF i \in up
       THEN midi_stream_note(c1, MIDI_DIGITAL_NOTE + i, FALSE) ELSE c1

RECURSIVE ExpansionLoop(_, _, _, _)
ExpansionLoop(ctx, i, down, up) ==
    IF i >= 4 THEN ctx
    ELSE ExpansionLoop(ExpansionKey(ctx, i, down, up), i + 1, down, up)

\* Digital notes generated in every mode.
ExpansionNotes_AnyMode(ctx, down, up) == ExpansionLoop(ctx, 0, down, up)

\* NOTE: enabling fourbanks external mode turns off digital note generation.
ExpansionNotes(ctx, down, up) ==
    IF g_key_fourbanks_mode # "FOURBANKS_EXTERNAL"
    THEN ExpansionLoop(ctx, 0, down, up) ELSE ctx

\* Four samples summed into a uint16_t, then >>= 2.
Average4(s) == ((s[1] + s[2] + s[3] + s[4]) % 65536) \div 4

\* adc_value[n] = 1024 - adc_value[n], under !g_rotate_enable.
InvertSlider(i, v) ==
    IF ~g_rotate_enable /\ i \in invert_slider
    THEN (1024 - v) % 65536 ELSE v

\* The value of adc_value[i] before the hysteresis.
AdcAverage(i, samples) == InvertSlider(i, Average4(samples[i]))

\* A dead-band that includes a difference of 8.
Hysteresis_Inclusive(a, p) == IF Abs(ToInt16(a - p)) <= 8 THEN p ELSE a

\* if (abs(difference) < 8) adc_value[i] = g_exp_analog_prev[i];
Hysteresis(a, p) == IF Abs(ToInt16(a - p)) < 8 THEN p ELSE a

Value7(v) == (v \div 8) % 256

cc_a(i) == MIDI_ANALOG_CC + 2 * i
cc_b(i) == MIDI_ANALOG_CC + 2 * i + 1
note_a(i) == MIDI_ANALOG_NOTE + 2 * i
note_b(i) == MIDI_ANALOG_NOTE + 2 * i + 1

\* 2. The second CC range (Traktor only).
SecondCC(ctx, i, value) ==
    IF value >= 64
    THEN LET v == remap(value, 64, NOTEON_HIGH, 0, 105) IN
         midi_stream_cc([ctx EXCEPT !.scc = v], cc_b(i), v)
    ELSE IF ctx.scc > 0
         THEN midi_stream_cc([ctx EXCEPT !.scc = 0], cc_b(i), 0)
         ELSE ctx

\* The default CC event without the test of the range.
AnalogCC_Unbounded(ctx, i, value) ==
    LET c1 == midi_stream_cc(ctx, cc_a(i),
                  remap(value, NOTEON_LOW, NOTEON_HIGH, 0, 127))
    IN IF g_device_mode = "TRAKTOR" THEN SecondCC(c1, i, value) ELSE c1

\* 1. The default CC event, and the second one.
AnalogCC(ctx, i, value) ==
    IF value >= NOTEON_LOW /\ value <= NOTEON_HIGH
    THEN LET c1 == midi_stream_cc(ctx, cc_a(i),
                       remap(value, NOTEON_LOW, NOTEON_HIGH, 0, 127))
         IN IF g_device_mode = "TRAKTOR" THEN SecondCC(c1, i, value) ELSE c1
    ELSE ctx

\* Note event with the ledger written directly.
ZoneNote(ctx, note, onoff) ==
    [midi_stream_note(ctx, note, onoff)
        EXCEPT !.ledger[note] = IF onoff THEN g_midi_velocity ELSE 0]

\* 3. A Note event on entering or leaving the top or bottom of the range.
AnalogNotes(ctx, i, value, prev_value) ==
    IF g_device_mode = "TRAKTOR"
    THEN IF value <= NOTEON_LOW /\ prev_value > NOTEON_LOW
         THEN ZoneNote(ctx, note_a(i), TRUE)
         ELSE IF value > NOTEON_LOW /\ prev_value <= NOTEON_LOW
         THEN ZoneNote(ctx, note_a(i), FALSE)
         ELSE IF value >= NOTEON_HIGH /\ prev_value < NOTEON_HIGH
         THEN ZoneNote(ctx, note_b(i), TRUE)
         ELSE IF value < NOTEON_HIGH /\ prev_value >= NOTEON_HIGH
         THEN ZoneNote(ctx, note_b(i), FALSE)
         ELSE ctx
    ELSE ctx

\* Record the new ADC value for next time through.
StorePrev(ctx, i, adc) == [ctx EXCEPT !.prev[i] = adc]

\* One iteration of the loop that checks the ADC values for a change.
AnalogChannel(ctx, i, adc) ==
    LET value == Value7(adc)
        prev_value == Value7(ctx.prev[i])
    IN IF value # prev_value
       THEN StorePrev(AnalogNotes(AnalogCC(ctx, i, value), i, value,
                                  prev_value), i, adc)
       ELSE ctx

RECURSIVE AnalogLoop(_, _, _)
AnalogLoop(ctx, i, adc) ==
    IF i >= NUM_ANALOG THEN ctx
    ELSE AnalogLoop(AnalogChannel(ctx, i, adc[i]), i + 1, adc)

\* Averaging, inversion and hysteresis of all channels, then the change loop.
AnalogStage(ctx, samples) ==
    LET adc == [i \in Channels |->
                   Hysteresis(AdcAverage(i, samples), g_exp_analog_prev[i])]
    IN AnalogLoop(ctx, 0, adc)

\* ------------------------------------------------------------------------
\* OUTPUT key presses: bank setup by Fourbanks mode
\* ------------------------------------------------------------------------
\* x >> 4 on a bitset.
ShiftRight4(S) == {k - 4 : k \in {j \in S : j >= 4}}

\* The key matrix bits taken as bank bits in Fourbanks Off mode as well.
BankKeydown_AnyMode(kdown, edown) ==
    IF g_key_fourbanks_mode = "FOURBANKS_EXTERNAL" THEN edown ELSE kdown

BankKeydown(kdown, edown) ==
    IF g_key_fourbanks_mode = "FOURBANKS_INTERNAL" THEN kdown
    ELSE IF g_key_fourbanks_mode = "FOURBANKS_EXTERNAL" THEN edown
    ELSE {}
BankKeyup(kup, eup) ==
    IF g_key_fourbanks_mode = "FOURBANKS_INTERNAL" THEN kup
    ELSE IF g_key_fourbanks_mode = "FOURBANKS_EXTERNAL" THEN eup
    ELSE {}
BankKeystate(kstate, estate) ==
    IF g_key_fourbanks_mode = "FOURBANKS_INTERNAL" THEN kstate
    ELSE IF g_key_fourbanks_mode = "FOURBANKS_EXTERNAL" THEN estate
    ELSE {}
\* The shift of the Internal mode applied in every mode.
PlayKeydown_Shifted(kdown) == ShiftRight4(kdown)

PlayKeydown(kdown) ==
    IF g_key_fourbanks_mode = "FOURBANKS_INTERNAL"
    THEN ShiftRight4(kdown) ELSE kdown
PlayKeyup(kup) ==
    IF g_key_fourbanks_mode = "FOURBANKS_INTERNAL"
    THEN ShiftRight4(kup) ELSE kup
keyoffset == IF g_key_fourbanks_mode = "FOURBANKS_INTERNAL" THEN 4 ELSE 0
keycount == IF g_key_fourbanks_mode = "FOURBANKS_INTERNAL" THEN 12 ELSE 16

\* Only bank zero is active (Fourbanks Off).
BankSetup(ctx) ==
    IF g_key_fourbanks_mode = "FOURBANKS_OFF"
    THEN [ctx EXCEPT !.bank = 0] ELSE ctx

\* ------------------------------------------------------------------------
\* Update the active bank
\* ------------------------------------------------------------------------
Max(S) == CHOOSE x \in S : \A y \in S : x >= y

\* A scan from the top bit down.
NewBank_Highest(bank_keydown) == Max(bank_keydown \cap 0..3)

\* The while loop: the leftmost (lowest) of the bank bits that went down.
NewBank(bank_keydown) == Min(bank_keydown \cap 0..3)

\* The test of the key state inverted.
ForceOldBankOff_Released(selected, new_bank, bank_keystate) ==
    selected # new_bank /\ selected \notin bank_keystate

\* Force a NoteOff if a new bank has been selected but the previous bank
\* is still depressed.
ForceOldBankOff(selected, new_bank, bank_keystate) ==
    selected # new_bank /\ selected \in bank_keystate

BankDown(ctx, bank_keydown, bank_keystate) ==
    IF bank_keydown \cap 0..3 # {}
    THEN LET new_bank == NewBank(bank_keydown)
             c1 == IF ForceOldBankOff(ctx.bank, new_bank, bank_keystate)
                   THEN midi_stream_note(ctx, ctx.bank, FALSE) ELSE ctx
             c2 == midi_stream_note(c1, new_bank, TRUE)
         IN [c2 EXCEPT !.bank = new_bank]
    ELSE ctx

\* NoteOff of the selected bank on the release of any bank key.
BankUp_AnyRelease(ctx, bank_keyup) ==
    IF bank_keyup \cap 0..3 # {}
    THEN midi_stream_note(ctx, ctx.bank, FALSE) ELSE ctx

\* NoteOff only for the currently selected bank.
BankUp(ctx, bank_keyup) ==
    IF bank_keyup \cap 0..3 # {} /\ ctx.bank \in bank_keyup
    THEN midi_stream_note(ctx, ctx.bank, FALSE) ELSE ctx

\* ------------------------------------------------------------------------
\* Key numbers to MIDI notes (midi.h)
\* ------------------------------------------------------------------------
midi_fourbanks_key_to_note(keynum, bank) ==
    IF g_key_fourbanks_mode = "FOURBANKS_INTERNAL"
    THEN MIDI_BASE_NOTE + bank * 12 + (keynum - 4)
    ELSE IF g_key_fourbanks_mode = "FOURBANKS_EXTERNAL"
    THEN MIDI_BASE_NOTE + bank * 16 + keynum
    ELSE MIDI_BASE_NOTE + keynum

midi_note_to_key(note) == note - MIDI_BASE_NOTE

midi_fourbanks_note_to_key(note) ==
    IF g_key_fourbanks_mode = "FOURBANKS_INTERNAL"
    THEN ((note - MIDI_BASE_NOTE) % 12) + 4
    ELSE (note - MIDI_BASE_NOTE) % 16

\* ------------------------------------------------------------------------
\* The loop over the key bits
\* ------------------------------------------------------------------------
\* The raw CC sent in every device mode.
KeyDownEvents_AnyMode(ctx, note) ==
    midi_stream_note(midi_stream_raw_cc(ctx, g_midi_channel + 1, note, 127),
                     note, TRUE)

KeyDownEvents(ctx, note) ==
    LET c1 == IF g_device_mode = "ABLETON"
              THEN midi_stream_raw_cc(ctx, g_midi_channel + 1, note, 127)
              ELSE ctx
    IN midi_stream_note(c1, note, TRUE)

KeyUpEvents(ctx, note) ==
    LET c1 == midi_stream_note(ctx, note, FALSE)
    IN IF g_device_mode = "ABLETON"
       THEN midi_stream_raw_cc(c1, g_midi_channel + 1, note, 0)
       ELSE c1

PlayKey(ctx, i, keydown, keyup) ==
    LET note == midi_fourbanks_key_to_note(i + keyoffset, ctx.bank)
        c1 == IF i \in keydown THEN KeyDownEvents(ctx, note) ELSE ctx
    IN IF i \in keyup THEN KeyUpEvents(c1, note) ELSE c1

RECURSIVE KeyLoop(_, _, _, _)
KeyLoop(ctx, i, keydown, keyup) ==
    IF i >= keycount THEN ctx
    ELSE KeyLoop(PlayKey(ctx, i, keydown, keyup), i + 1, keydown, keyup)

\* ------------------------------------------------------------------------
\* Recognize combo key events
\* ------------------------------------------------------------------------
ComboActions ==
    {"COMBO_NONE", "COMBO_A_DOWN", "COMBO_A_RELEASE", "COMBO_B_DOWN",
     "COMBO_B_RELEASE", "COMBO_C_DOWN", "COMBO_C_RELEASE", "COMBO_D_DOWN",
     "COMBO_D_RELEASE", "COMBO_E_DOWN", "COMBO_E_RELEASE"}

\* switch (action)
ComboNote(ctx, action) ==
    CASE action = "COMBO_A_DOWN" -> midi_stream_note(ctx, 8, TRUE)
      [] action = "COMBO_A_RELEASE" -> midi_stream_note(ctx, 8, FALSE)
      [] action = "COMBO_B_DOWN" -> midi_stream_note(ctx, 9, TRUE)
      [] action = "COMBO_B_RELEASE" -> midi_stream_note(ctx, 9, FALSE)
      [] action = "COMBO_C_DOWN" -> midi_stream_note(ctx, 10, TRUE)
      [] action = "COMBO_C_RELEASE" -> midi_stream_note(ctx, 10, FALSE)
      [] action = "COMBO_D_DOWN" -> midi_stream_note(ctx, 11, TRUE)
      [] action = "COMBO_D_RELEASE" -> midi_stream_note(ctx, 11, FALSE)
      [] action = "COMBO_E_DOWN" -> midi_stream_note(ctx, 12, TRUE)
      [] action = "COMBO_E_RELEASE" -> midi_stream_note(ctx, 12, FALSE)
      [] OTHER -> ctx

ComboStage(ctx, action) ==
    IF g_combos_enable THEN ComboNote(ctx, action) ELSE ctx

\* ------------------------------------------------------------------------
\* Update the LEDs
\* ------------------------------------------------------------------------
\* "this bool is hard coded as true"
g_exp_led_keypress_enable == TRUE

\* LED bits of the notes basenote .. basenote+count-1 with nonzero velocity.
SliceLeds(ledger, basenote, count, note_to_key(_)) ==
    {note_to_key(n) : n \in {m \in basenote..(basenote + count - 1) :
                                ledger[m] > 0}}

\* The external key LEDs read from the analog notes.
DigitalLeds_AnalogNotes(ledger) ==
    {i \in 0..3 : ledger[MIDI_ANALOG_NOTE + i] > 0}

\* The external key LEDs from the digital notes.
DigitalLeds(ledger) == {i \in 0..3 : ledger[MIDI_DIGITAL_NOTE + i] > 0}

\* The keypress overlay of the Internal mode without its mask.
RenderLeds_Unmasked(ledger, bank, kstate) ==
    IF g_key_fourbanks_mode = "FOURBANKS_OFF"
    THEN SliceLeds(ledger, MIDI_BASE_NOTE, 16, midi_note_to_key)
         \cup (IF g_led_keypress_enable THEN kstate ELSE {})
    ELSE IF g_key_fourbanks_mode = "FOURBANKS_INTERNAL"
    THEN {bank}
         \cup SliceLeds(ledger, MIDI_BASE_NOTE + bank * 12, 12,
                        midi_fourbanks_note_to_key)
         \cup (IF g_led_keypress_enable THEN kstate ELSE {})
    ELSE SliceLeds(ledger, MIDI_BASE_NOTE + bank * 16, 16,
                   midi_fourbanks_note_to_key)
         \cup (IF g_led_keypress_enable THEN kstate ELSE {})

\* The Internal mode reading a slice of 16 notes.
RenderLeds_WideSlice(ledger, bank, kstate) ==
    IF g_key_fourbanks_mode = "FOURBANKS_OFF"
    THEN SliceLeds(ledger, MIDI_BASE_NOTE, 16, midi_note_to_key)
         \cup (IF g_led_keypress_enable THEN kstate ELSE {})
    ELSE IF g_key_fourbanks_mode = "FOURBANKS_INTERNAL"
    THEN {bank}
         \cup SliceLeds(ledger, MIDI_BASE_NOTE + bank * 12, 16,
                        midi_fourbanks_note_to_key)
         \cup (IF g_led_keypress_enable THEN kstate \cap 4..15 ELSE {})
    ELSE SliceLeds(ledger, MIDI_BASE_NOTE + bank * 16, 16,
                   midi_fourbanks_note_to_key)
         \cup (IF g_led_keypress_enable THEN kstate ELSE {})

RenderLeds(ledger, bank, kstate) ==
    IF g_key_fourbanks_mode = "FOURBANKS_OFF"
    THEN SliceLeds(ledger, MIDI_BASE_NOTE, 16, midi_note_to_key)
         \cup (IF g_led_keypress_enable THEN kstate ELSE {})
    ELSE IF g_key_fourbanks_mode = "FOURBANKS_INTERNAL"
    THEN {bank}
         \cup SliceLeds(ledger, MIDI_BASE_NOTE + bank * 12, 12,
                        midi_fourbanks_note_to_key)
         \cup (IF g_led_keypress_enable THEN kstate \cap 4..15 ELSE {})
    ELSE SliceLeds(ledger, MIDI_BASE_NOTE + bank * 16, 16,
                   midi_fourbanks_note_to_key)
         \cup (IF g_led_keypress_enable THEN kstate ELSE {})

RenderExpLeds(ledger, bank, estate) ==
    IF g_key_fourbanks_mode = "FOURBANKS_OFF"
    THEN DigitalLeds(ledger)
         \cup (IF g_exp_led_keypress_enable THEN estate ELSE {})
    ELSE IF g_key_fourbanks_mode = "FOURBANKS_INTERNAL"
    THEN DigitalLeds(ledger)
    ELSE {bank}

\* Update the Ground Effects LED: the LED after the tick.
GroundFxLed(counter, led) ==
    IF counter = 0 THEN TRUE
    ELSE IF counter < 8 THEN FALSE
    ELSE IF counter < 24 THEN TRUE
    ELSE led

\* ... and the counter after the tick.
GroundFxCounter(counter) ==
    IF counter < 24 THEN counter ELSE 0

\* ------------------------------------------------------------------------
\* Actions
\* ------------------------------------------------------------------------
\* The receive loop entered whatever the device state.
InReceiveLoop_Always == pc \in {"drain", "task"}

\* Midifighter_Task() has been called and is still before the end of the
\* receive loop.
InReceiveLoop ==
    \/ pc = "drain"
    \/ pc = "task" /\ USB_DeviceState = "Configured"

\* The task called while the device is not enumerated.
Task_NotConfigured ==
    /\ pc = "task"
    /\ USB_DeviceState # "Configured"
    /\ main_watchdog_flag' = TRUE
    /\ wdt_resets' = 0
    /\ pc' = "usbtask"
    /\ UNCHANGED <<remapvars, USB_DeviceState, cfgvars, keyvars, demuxvars, analogvars,
                   ledvars, g_midi_note_state, g_key_bank_selected, out,
                   sounding, last_cc>>

\* MIDI_Device_ReceiveEventPacket() returned true with packet ev.
ReceivePacket(ev) ==
    /\ InReceiveLoop
    /\ drained < MaxDrain
    /\ pc' = "drain"
    /\ wdt_resets' = 0
    /\ input_event' = ev
    /\ drained' = drained + 1
    /\ g_led_groundfx_counter' = DemuxCounter(ev, g_led_groundfx_counter)
    /\ clocks_seen' = DemuxClocks(ev, clocks_seen)
    /\ g_midi_note_state' = DemuxLedger(ev, g_midi_note_state)
    /\ ledger_overrun' = DemuxOverrun(ev, ledger_overrun)
    /\ UNCHANGED <<remapvars, USB_DeviceState, main_watchdog_flag, cfgvars, keyvars,
                   analogvars, ledvars, g_key_bank_selected, out, sounding,
                   last_cc>>

\* The statements of lines 395-723 applied to the state: the context after
\* the flush.
TickEvents(keys, expkeys, samples, action) ==
    LET edown == KeyDownEdges(expkeys, g_exp_key_prev_state)
        eup == KeyUpEdges(expkeys, g_exp_key_prev_state)
        kdown == KeyDownEdges(keys, g_key_prev_state)
        kup == KeyUpEdges(keys, g_key_prev_state)
        c0 == [ledger |-> g_midi_note_state, out |-> <<>>,
               scc |-> second_cc_value, prev |-> g_exp_analog_prev,
               bank |-> g_key_bank_selected]
        c1 == ExpansionNotes(c0, edown, eup)
        c2 == AnalogStage(c1, samples)
        c3 == BankSetup(c2)
        c4 == BankDown(c3, BankKeydown(kdown, edown),
                       BankKeystate(keys, expkeys))
        c5 == BankUp(c4, BankKeyup(kup, eup))
        c6 == KeyLoop(c5, 0, PlayKeydown(kdown), PlayKeyup(kup))
        c7 == ComboStage(c6, action)
    IN MIDI_Device_Flush(c7)

\* The receive loop ended; inputs are read and the MIDI events of the tick
\* are generated and flushed.
ScanEmit(keys, expkeys, samples, action) ==
    /\ InReceiveLoop
    /\ \E c \in {TickEvents(keys, expkeys, samples, action)} :
          /\ g_midi_note_state' = c.ledger
          /\ out' = c.out
          /\ second_cc_value' = c.scc
          /\ g_exp_analog_prev' = c.prev
          /\ g_key_bank_selected' = c.bank
          /\ sounding' = ApplyOut(sounding, c.out)
          /\ last_cc' = ApplyCC(last_cc, c.out)
    /\ g_exp_key_state' = expkeys
    /\ g_exp_key_prev_state' = expkeys
    /\ g_exp_key_down' = KeyDownEdges(expkeys, g_exp_key_prev_state)
    /\ g_exp_key_up' = KeyUpEdges(expkeys, g_exp_key_prev_state)
    /\ g_key_state' = keys
    /\ g_key_prev_state' = keys
    /\ g_key_down' = KeyDownEdges(keys, g_key_prev_state)
    /\ g_key_up' = KeyUpEdges(keys, g_key_prev_state)
    /\ adc_samples' = samples
    /\ pc' = "render"
    /\ wdt_resets' = 0
    /\ UNCHANGED <<remapvars, USB_DeviceState, main_watchdog_flag, cfgvars,
                   demuxvars, ledvars>>

\* The LEDs are set from the ledger and the task returns.
Render ==
    /\ pc = "render"
    /\ leds' = RenderLeds(g_midi_note_state, g_key_bank_selected, g_key_state)
    /\ exp_key_led' = RenderExpLeds(g_midi_note_state, g_key_bank_selected,
                                    g_exp_key_state)
    /\ groundfx_led' = GroundFxLed(g_led_groundfx_counter, groundfx_led)
    /\ g_led_groundfx_counter' = GroundFxCounter(g_led_groundfx_counter)
    /\ main_watchdog_flag' = TRUE
    /\ input_event' = NoEvent
    /\ drained' = 0
    /\ pc' = "usbtask"
    /\ UNCHANGED <<remapvars, USB_DeviceState, wdt_resets, cfgvars, keyvars, clocks_seen,
                   ledger_overrun, analogvars, g_midi_note_state,
                   g_key_bank_selected, out, sounding, last_cc>>

\* The watchdog reset without the flag cleared.
MainLoop_NoClear(usb) ==
    /\ pc = "usbtask"
    /\ USB_DeviceState' = usb
    /\ IF main_watchdog_flag
       THEN wdt_resets' = wdt_resets + 1
       ELSE UNCHANGED wdt_resets
    /\ UNCHANGED main_watchdog_flag
    /\ out' = <<>>
    /\ pc' = "task"
    /\ UNCHANGED <<remapvars, cfgvars, keyvars, demuxvars, analogvars, ledvars,
                   g_midi_note_state, g_key_bank_selected, sounding,
                   last_cc>>

\* The rest of the endless loop of main(): the USB tasks (after which the
\* device state is usb) and the watchdog reset.
MainLoop(usb) ==
    /\ pc = "usbtask"
    /\ USB_DeviceState' = usb
    /\ IF main_watchdog_flag
       THEN wdt_resets' = wdt_resets + 1 /\ main_watchdog_flag' = FALSE
       ELSE UNCHANGED <<wdt_resets, main_watchdog_flag>>
    /\ out' = <<>>
    /\ pc' = "task"
    /\ UNCHANGED <<remapvars, cfgvars, keyvars, demuxvars, analogvars, ledvars,
                   g_midi_note_state, g_key_bank_selected, sounding,
                   last_cc>>

\* ------------------------------------------------------------------------
\* Initial states
\* ------------------------------------------------------------------------
NoSamples == [i \in Channels |-> <<0, 0, 0, 0>>]

\* The state when main() enters its endless loop, for a configuration
\* drawn from the given sets.
InitWith(usbs, fourbanks, devices, chans, vels, keypress, combos, rotates,
         inverts) ==
    /\ pc = "task"
    /\ USB_DeviceState \in usbs
    /\ main_watchdog_flag = FALSE
    /\ wdt_resets = 0
    /\ g_key_fourbanks_mode \in fourbanks
    /\ g_device_mode \in devices
    /\ g_midi_channel \in chans
    /\ g_midi_velocity \in vels
    /\ g_led_keypress_enable \in keypress
    /\ g_combos_enable \in combos
    /\ g_rotate_enable \in rotates
    /\ invert_slider \in inverts
    /\ input_event = NoEvent
    /\ drained = 0
    /\ g_led_groundfx_counter = 0
    /\ groundfx_led = FALSE
    /\ clocks_seen = 0
    /\ g_midi_note_state = [n \in Notes |-> 0]
    /\ ledger_overrun = {}
    /\ g_exp_analog_prev = [i \in Channels |-> 0]
    /\ second_cc_value = 0
    /\ adc_samples = NoSamples
    /\ g_key_state = {} /\ g_key_prev_state = {}
    /\ g_key_down = {} /\ g_key_up = {}
    /\ g_exp_key_state = {} /\ g_exp_key_prev_state = {}
    /\ g_exp_key_down = {} /\ g_exp_key_up = {}
    /\ g_key_bank_selected = 0
    /\ out = <<>>
    /\ sounding = {}
    /\ last_cc = [i \in Channels |-> -1]
    /\ leds = {0}
    /\ exp_key_led = {}
    /\ remap_args = <<>>
    /\ remap_result = <<>>

\* ------------------------------------------------------------------------
\* Specification of the whole loop: the device enumerates and drops off the
\* bus, packets arrive, a bank key, a playable key, an expansion pin and
\* the slider of channel 0 move, combos are recognised.
\* ------------------------------------------------------------------------
Init ==
    InitWith({"Unattached"}, {"FOURBANKS_OFF", "FOURBANKS_INTERNAL"},
             {"DEFAULT"}, {2}, {127}, {TRUE}, {TRUE}, {FALSE}, {{}})

LoopPackets ==
    [Command : {9, 8}, Data1 : {146}, Data2 : {40}, Data3 : {100}]
    \cup [Command : {15}, Data1 : {250}, Data2 : {0}, Data3 : {0}]

LoopSamples ==
    {[i \in Channels |-> IF i = 0 THEN <<v, v, v, v>> ELSE <<0, 0, 0, 0>>] :
        v \in {0, 512}}

ReceiveAny == \E ev \in LoopPackets : ReceivePacket(ev)

Tick ==
    \E keys \in SUBSET {1, 4}, expkeys \in SUBSET {0},
       samples \in LoopSamples,
       action \in {"COMBO_NONE", "COMBO_A_DOWN", "COMBO_A_RELEASE"} :
        ScanEmit(keys, expkeys, samples, action)

USBTask == \E usb \in {"Unattached", "Configured"} : MainLoop(usb)

Next == Task_NotConfigured \/ ReceiveAny \/ Tick \/ Render \/ USBTask

Spec == Init /\ [][Next]_vars

\* ------------------------------------------------------------------------
\* Specification of the inbound demultiplexer: packets arrive, the keys and
\* the analog inputs are at rest.
\* ------------------------------------------------------------------------
\* Inbound packets: Start and Active Sensing, Note-On/Note-Off on two
\* channels, a Control Change, a SysEx fragment.
DemuxPackets ==
    [Command : {15}, Data1 : {250, 254}, Data2 : {0}, Data3 : {0}]
    \cup [Command : {9}, Data1 : {146, 147}, Data2 : {36, 60, 127},
          Data3 : {0, 1, 100}]
    \cup [Command : {8}, Data1 : {130, 131}, Data2 : {36, 60, 127},
          Data3 : {0, 64}]
    \cup [Command : {11}, Data1 : {178}, Data2 : {36}, Data3 : {5}]
    \cup [Command : {4}, Data1 : {240}, Data2 : {0}, Data3 : {1}]

InitDemux ==
    InitWith({"Configured"}, {"FOURBANKS_OFF"}, {"DEFAULT"}, {2}, {127},
             {TRUE}, {FALSE}, {FALSE}, {{}})

Receive == \E ev \in DemuxPackets : ReceivePacket(ev)

QuietTick == ScanEmit({}, {}, NoSamples, "COMBO_NONE")

LoopConfigured == MainLoop("Configured")

NextDemux == Receive \/ QuietTick \/ Render \/ LoopConfigured

SpecDemux == InitDemux /\ [][NextDemux]_vars

\* ------------------------------------------------------------------------
\* Specification of the MIDI clock: realtime packets only.
\* ------------------------------------------------------------------------
ClockPackets ==
    [Command : {15}, Data1 : {248, 250, 252, 254}, Data2 : {0}, Data3 : {0}]

ReceiveRealTime == \E ev \in ClockPackets : ReceivePacket(ev)

NextClock == ReceiveRealTime \/ QuietTick \/ Render \/ LoopConfigured

SpecClock == InitDemux /\ [][NextClock]_vars

\* ------------------------------------------------------------------------
\* Properties of the inbound demultiplexer
\* ------------------------------------------------------------------------
\* The packet last received is a Note-Off / Note-On on the receive channel.
OnChannel(cmd) ==
    /\ pc = "drain"
    /\ drained > 0
    /\ input_event.Command = cmd
    /\ input_event.Data1 % 16 = g_midi_channel

\* C1: right after the demultiplexer has processed a Note-Off (command 0x8)
\* on the receive channel, the ledger entry of its note is 0 whatever
\* velocity byte the packet carried; right after a Note-On (command 0x9) on
\* the receive channel it is the received velocity byte, zero included.
C1_NoteOffStoresZero ==
    /\ OnChannel(8) => g_midi_note_state[input_event.Data2] = 0
    /\ OnChannel(9) =>
          g_midi_note_state[input_event.Data2] = input_event.Data3

\* A Note-Off carrying velocity 64 has just been processed in a tick that
\* received a packet before it.
C1_Witness ==
    /\ OnChannel(8)
    /\ drained = 2
    /\ input_event.Data3 = 64
    /\ g_midi_note_state[input_event.Data2] = 0

\* C10: after a rendered tick the ground-effects LED is on when the counter
\* is 0, off when it is 1..7 and on when it is 8..23, and the counter equals
\* the number of Clock messages received modulo 24 (a period of exactly 24
\* Clock messages), however the Clock messages are spread over the ticks.
C10_GroundFxCycle ==
    pc = "usbtask" =>
        /\ g_led_groundfx_counter = clocks_seen
        /\ groundfx_led = (g_led_groundfx_counter = 0
                           \/ g_led_groundfx_counter \in 8..23)

\* ------------------------------------------------------------------------
\* Specification of the bank-switching state machine: the bank-select keys
\* move, no packets arrive, the playable keys and the analog inputs rest.
\* ------------------------------------------------------------------------
InitBank ==
    InitWith({"Configured"}, {"FOURBANKS_INTERNAL", "FOURBANKS_EXTERNAL"},
             {"DEFAULT"}, {2}, {127}, {TRUE}, {FALSE}, {FALSE}, {{}})

\* Debounced key matrix snapshots: the four bank-select keys in Internal
\* mode.
BankKeyInputs ==
    IF g_key_fourbanks_mode = "FOURBANKS_INTERNAL"
    THEN SUBSET {0, 1, 2, 3} ELSE {{}}

\* Debounced expansion pin snapshots.
BankExpInputs ==
    IF g_key_fourbanks_mode = "FOURBANKS_EXTERNAL"
    THEN SUBSET {0, 1, 2, 3} ELSE {{}}

KeyTick ==
    \E keys \in BankKeyInputs, expkeys \in BankExpInputs :
        ScanEmit(keys, expkeys, NoSamples, "COMBO_NONE")

NextBank == KeyTick \/ Render \/ LoopConfigured

SpecBank == InitBank /\ [][NextBank]_vars

\* ------------------------------------------------------------------------
\* Properties of the bank-switching state machine
\* ------------------------------------------------------------------------
Banked == g_key_fourbanks_mode \in {"FOURBANKS_INTERNAL", "FOURBANKS_EXTERNAL"}

\* The bank-select bits with a down-edge in the last scan, and those held.
SelectDown ==
    IF g_key_fourbanks_mode = "FOURBANKS_INTERNAL" THEN g_key_down \cap 0..3
    ELSE IF g_key_fourbanks_mode = "FOURBANKS_EXTERNAL"
    THEN g_exp_key_down \cap 0..3 ELSE {}
SelectHeld ==
    IF g_key_fourbanks_mode = "FOURBANKS_INTERNAL" THEN g_key_state \cap 0..3
    ELSE IF g_key_fourbanks_mode = "FOURBANKS_EXTERNAL"
    THEN g_exp_key_state \cap 0..3 ELSE {}

\* Positions in the tick's events of a Note-On / Note-Off of note n.
IsNote(e, kind, n) == e.kind = kind /\ e.d1 = n
BankNoteOns ==
    {k \in 1..Len(out) : out[k].kind = "NoteOn" /\ out[k].d1 \in 0..3}

\* Note-Off(o) immediately followed by Note-On(n) in the tick's events.
OffThenOn(evs, o, n) ==
    \E k \in 1..(Len(evs) - 1) :
        IsNote(evs[k], "NoteOff", o) /\ IsNote(evs[k + 1], "NoteOn", n)

\* C2: in a banked mode two bank notes (0..3) are never on at once at the
\* receiver: when a bank's Note-On is sent, every other bank whose Note-On
\* was sent earlier has had its Note-Off sent.
C2_OneBankNoteOn == Banked => Cardinality(sounding \cap 0..3) <= 1

\* C3: a tick whose bank-select down-edge selects a bank n other than the
\* selected bank o, while o's select key is still held, sends Note-Off(o)
\* immediately followed by Note-On(n), and selects n.
C3_ForcedNoteOff ==
    [][(/\ pc # "render" /\ pc' = "render"
        /\ Banked
        /\ SelectDown' # {}
        /\ Min(SelectDown') # g_key_bank_selected
        /\ g_key_bank_selected \in SelectHeld')
       => /\ g_key_bank_selected' = Min(SelectDown')
          /\ OffThenOn(out', g_key_bank_selected, Min(SelectDown'))]_vars

\* Internal mode: bank 3 has been selected while bank 0's key is held, with
\* Note-Off(0) and Note-On(3) sent in this order.
C3_Witness ==
    /\ pc = "render"
    /\ g_key_fourbanks_mode = "FOURBANKS_INTERNAL"
    /\ SelectDown = {3}
    /\ 0 \in SelectHeld
    /\ g_key_bank_selected = 3
    /\ OffThenOn(out, 0, 3)

\* C4: in a banked mode, after the events of a tick with a down-edge among
\* the four bank-select bits, the selected bank is the lowest bit with a
\* down-edge and exactly one bank Note-On was sent in the tick, for it.
C4_LowestBankWins ==
    (pc = "render" /\ Banked /\ SelectDown # {}) =>
        /\ g_key_bank_selected = Min(SelectDown)
        /\ Cardinality(BankNoteOns) = 1
        /\ \A k \in BankNoteOns : out[k].d1 = g_key_bank_selected

\* Simultaneous down-edges on bits 1 and 2 have selected bank 1.
C4_Witness ==
    /\ pc = "render"
    /\ SelectDown = {1, 2}
    /\ g_key_bank_selected = 1
    /\ \E k \in 1..Len(out) : IsNote(out[k], "NoteOn", 1)

\* ------------------------------------------------------------------------
\* Specification of the analog filter: the sliders of channels 0 and 1
\* move, channels 2 and 3 and the keys rest, no packets arrive.
\* ------------------------------------------------------------------------
InitAnalog ==
    \/ InitWith({"Configured"}, {"FOURBANKS_OFF"},
                {"TRAKTOR", "DEFAULT", "ABLETON"},
                {2}, {127}, {TRUE}, {FALSE}, {FALSE}, {{}})
    \/ InitWith({"Configured"}, {"FOURBANKS_OFF"}, {"TRAKTOR"},
                {2}, {127}, {TRUE}, {FALSE}, {FALSE, TRUE}, {{0}})

Steady(v) == <<v, v, v, v>>

\* Four ADC reads of channel 0: steady readings over the range, and noisy
\* ones whose truncated averages are 17 and 1000.
Slider0Reads ==
    {Steady(0), Steady(8), Steady(16), <<17, 18, 17, 17>>, Steady(24),
     Steady(32), Steady(80), Steady(400), Steady(512), Steady(800), Steady(992),
     <<1000, 1001, 1000, 1002>>, Steady(1008), Steady(1023)}

\* Four ADC reads of channel 1.
Slider1Reads == {Steady(0), Steady(480), Steady(640)}

AnalogInputs ==
    {[i \in Channels |-> IF i = 0 THEN s0 ELSE IF i = 1 THEN s1 ELSE Steady(0)]
        : s0 \in Slider0Reads, s1 \in Slider1Reads}

AnalogTick ==
    \E samples \in AnalogInputs : ScanEmit({}, {}, samples, "COMBO_NONE")

NextAnalog == AnalogTick \/ Render \/ LoopConfigured

SpecAnalog == InitAnalog /\ [][NextAnalog]_vars

\* ------------------------------------------------------------------------
\* Specification of remap() on its own: arguments drawn from the 8-bit
\* range, the function applied to value and to the next value.
\* ------------------------------------------------------------------------
RemapDomains == {<<0, 1>>, <<0, 124>>, <<0, 255>>, <<3, 124>>, <<3, 255>>,
                 <<64, 124>>, <<64, 255>>, <<254, 255>>}
RemapRanges == {<<0, 5>>, <<0, 105>>, <<0, 127>>, <<0, 255>>, <<5, 5>>,
                <<5, 105>>, <<5, 127>>, <<5, 255>>, <<255, 255>>}

\* [value, from, to, lo, hi] with from < to and lo <= hi.
RemapInputs ==
    {[value |-> v, from |-> d[1], to |-> d[2], lo |-> r[1], hi |-> r[2]] :
        v \in 0..255, d \in RemapDomains, r \in RemapRanges}

NextValue(v) == IF v < 255 THEN v + 1 ELSE v

InitRemap ==
    /\ InitWith({"Configured"}, {"FOURBANKS_OFF"}, {"DEFAULT"}, {2}, {127},
                {TRUE}, {FALSE}, {FALSE}, {{}})

CallRemap ==
    /\ remap_result = <<>>
    /\ \E a \in RemapInputs :
          /\ remap_args' = a
          /\ remap_result' = <<remap(a.value, a.from, a.to, a.lo, a.hi),
                               remap(NextValue(a.value), a.from, a.to, a.lo,
                                     a.hi)>>
    /\ UNCHANGED <<pc, USB_DeviceState, main_watchdog_flag, wdt_resets,
                   cfgvars, keyvars, demuxvars, analogvars, ledvars,
                   g_midi_note_state, g_key_bank_selected, out, sounding,
                   last_cc>>

NextRemap == CallRemap

SpecRemap == InitRemap /\ [][NextRemap]_vars

\* ------------------------------------------------------------------------
\* Properties of remap()
\* ------------------------------------------------------------------------
Called == remap_result # <<>>

\* The product of remap() for the arguments of the call, in the integers.
ExactProduct(a) == (a.value - a.from) * (a.hi - a.lo)

\* C8: for 8-bit arguments with from < to and lo <= hi, remap returns lo
\* for value <= from and hi for value >= to, never decreases from value to
\* the next value, and returns a result in lo..hi; for (3,124,0,127) and
\* (64,124,0,105) the product fits a signed 16-bit integer.
C8_RemapClampMonotone ==
    Called =>
        LET a == remap_args
            r == remap_result[1]
        IN /\ a.value <= a.from => r = a.lo
           /\ a.value >= a.to => r = a.hi
           /\ r <= remap_result[2]
           /\ r \in a.lo..a.hi
           /\ (/\ <<a.from, a.to, a.lo, a.hi>> \in
                    {<<3, 124, 0, 127>>, <<64, 124, 0, 105>>}
               /\ a.value \in a.from..a.to)
              => /\ ExactProduct(a) < 32768
                 /\ remap_numer(a.value, a.from, a.lo, a.hi) = ExactProduct(a)

\* remap(100, 64, 124, 0, 105) = 63 and remap(101, ...) = 64.
C8_Witness ==
    /\ Called
    /\ remap_args = [value |-> 100, from |-> 64, to |-> 124, lo |-> 0,
                     hi |-> 105]
    /\ remap_result = <<63, 64>>

\* ------------------------------------------------------------------------
\* Properties of the analog filter
\* ------------------------------------------------------------------------
\* The step of a tick that reads the inputs and sends the events.
EmitStep == pc # "render" /\ pc' = "render"

\* The 4-sample truncated average of channel i, inverted where the slider
\* is inverted, from the samples read in the last scan.
ReadAverage(i) ==
    LET s == adc_samples[i]
        avg == (s[1] + s[2] + s[3] + s[4]) \div 4
    IN IF i \in invert_slider /\ ~g_rotate_enable THEN 1024 - avg ELSE avg

\* The stored 7-bit value of channel i.
Stored7(i) == g_exp_analog_prev[i] \div 8

\* Number of events of the given kind and number (and data, for a CC).
CountNote(evs, kind, n) ==
    Cardinality({k \in 1..Len(evs) : IsNote(evs[k], kind, n)})
CountCC(evs, cc, value) ==
    Cardinality({k \in 1..Len(evs) :
                    IsNote(evs[k], "CC", cc) /\ evs[k].d2 = value})

\* C5: in Traktor mode a change of a channel's 7-bit value from 2 to 4
\* sends Note-On for note_a and a change from 124 to 126 sends Note-On for
\* note_b; crossing back (4 to 2, 126 to 123) sends the Note-Off once.
C5_DualZoneNoteOn ==
    [][(EmitStep /\ g_device_mode = "TRAKTOR") =>
        \A i \in Channels :
            /\ (Stored7(i) = 2 /\ Stored7(i)' = 4)
                  => CountNote(out', "NoteOn", note_a(i)) = 1
            /\ (Stored7(i) = 124 /\ Stored7(i)' = 126)
                  => CountNote(out', "NoteOn", note_b(i)) = 1
            /\ (Stored7(i) = 4 /\ Stored7(i)' = 2)
                  => CountNote(out', "NoteOff", note_a(i)) = 1
            /\ (Stored7(i) = 126 /\ Stored7(i)' = 123)
                  => CountNote(out', "NoteOff", note_b(i)) = 1]_vars

\* C6: in Traktor mode, on a change of channel i's 7-bit value from prev to
\* value, each rule applies on its own: entering the bottom zone
\* (value <= 3 < prev) sends Note-On note_a and sets its ledger entry to the
\* default velocity; leaving it (prev <= 3 < value) sends Note-Off note_a
\* and zeroes the entry; entering the top zone (prev < 124 <= value) sends
\* Note-On note_b and sets its entry; leaving it (value < 124 <= prev) sends
\* Note-Off note_b and zeroes the entry.
C6_ZoneRulesIndependent ==
    [][(EmitStep /\ g_device_mode = "TRAKTOR") =>
        \A i \in Channels :
            LET prev == Stored7(i)
                value == Stored7(i)'
            IN /\ (value <= 3 /\ 3 < prev)
                    => /\ CountNote(out', "NoteOn", note_a(i)) = 1
                       /\ g_midi_note_state'[note_a(i)] = g_midi_velocity
               /\ (prev <= 3 /\ 3 < value)
                    => /\ CountNote(out', "NoteOff", note_a(i)) = 1
                       /\ g_midi_note_state'[note_a(i)] = 0
               /\ (prev < 124 /\ 124 <= value)
                    => /\ CountNote(out', "NoteOn", note_b(i)) = 1
                       /\ g_midi_note_state'[note_b(i)] = g_midi_velocity
               /\ (value < 124 /\ 124 <= prev)
                    => /\ CountNote(out', "NoteOff", note_b(i)) = 1
                       /\ g_midi_note_state'[note_b(i)] = 0]_vars

\* C7: for each channel and every tick, with stored previous smoothed
\* value p and new truncated 4-sample average a (after inversion), the
\* stored value after the tick is p when |a-p| < 8 and a when |a-p| >= 8.
C7_Hysteresis ==
    [][EmitStep =>
        \A i \in Channels :
            LET p == g_exp_analog_prev[i]
                a == ReadAverage(i)'
            IN g_exp_analog_prev'[i] =
                  IF a - p < 8 /\ p - a < 8 THEN p ELSE a]_vars

\* Channel 0 has read an average of 24 and the stored value is still 17:
\* the change of 7 was discarded although the 7-bit values differ.
C7_Witness ==
    /\ pc = "render"
    /\ ReadAverage(0) = 24
    /\ g_exp_analog_prev[0] = 17

\* C9: in Traktor mode, for each channel i on its own: a change to a 7-bit
\* value in 64..124 sends CC 17+2i with remap(value,64,124,0,105); a drop
\* from >= 64 into 3..63 sends exactly one CC 17+2i with value 0; a change
\* of a channel that was below 64 to a value below 64 sends no zero on
\* CC 17+2i, whatever the other channels did.
C9_SecondCCPerChannel ==
    [][(EmitStep /\ g_device_mode = "TRAKTOR") =>
        \A i \in Channels :
            LET prev == Stored7(i)
                value == Stored7(i)'
            IN /\ (value # prev /\ value \in 64..124)
                    => CountCC(out', cc_b(i),
                               remap(value, 64, 124, 0, 105)) = 1
               /\ (prev >= 64 /\ value \in 3..63)
                    => CountCC(out', cc_b(i), 0) = 1
               /\ (prev < 64 /\ value < 64)
                    => CountCC(out', cc_b(i), 0) = 0]_vars


\* ------------------------------------------------------------------------
\* Specification of the key-to-note emitter: playable keys, bank-select
\* keys and expansion pins move in all three Fourbanks modes and all three
\* device modes; no packets arrive, the analog inputs rest.
\* ------------------------------------------------------------------------
InitKeys ==
    InitWith({"Configured"},
             {"FOURBANKS_OFF", "FOURBANKS_INTERNAL", "FOURBANKS_EXTERNAL"},
             {"DEFAULT", "TRAKTOR", "ABLETON"}, {2}, {127}, {TRUE, FALSE},
             {FALSE}, {FALSE}, {{}})

\* Debounced key matrix snapshots.
KeyInputs ==
    IF g_key_fourbanks_mode = "FOURBANKS_OFF" THEN SUBSET {3, 15}
    ELSE IF g_key_fourbanks_mode = "FOURBANKS_INTERNAL"
    THEN SUBSET {1, 4}
    ELSE SUBSET {15}

\* Debounced expansion pin snapshots.
ExpInputs ==
    IF g_key_fourbanks_mode = "FOURBANKS_EXTERNAL" THEN SUBSET {1, 2}
    ELSE SUBSET {0, 3}

PlayTick ==
    \E keys \in KeyInputs, expkeys \in ExpInputs :
        ScanEmit(keys, expkeys, NoSamples, "COMBO_NONE")

NextKeys == PlayTick \/ Render \/ LoopConfigured

SpecKeys == InitKeys /\ [][NextKeys]_vars

\* ------------------------------------------------------------------------
\* Properties of the key-to-note emitter
\* ------------------------------------------------------------------------
\* Positions of the raw CC events among the tick's events.
RawCCs == {k \in 1..Len(out) : out[k].kind = "RawCC"}

CountRawCC(evs, channel, cc, value) ==
    Cardinality({k \in 1..Len(evs) : evs[k] = RawCCEv(channel, cc, value)})

\* The note of playable key index i in the bank selected after the scan.
PlayNote(i) == midi_fourbanks_key_to_note(i + keyoffset, g_key_bank_selected)

\* C11: Fourbanks Off with keypress lighting enabled: after a tick with a
\* down-edge on key 3, Note-On for key 3's note was sent once in the tick,
\* the ledger entry of that note is the default velocity and the LED
\* pattern set in the tick has bit 3.
C11_Key3EndToEnd ==
    (/\ pc = "usbtask"
     /\ g_key_fourbanks_mode = "FOURBANKS_OFF"
     /\ g_led_keypress_enable
     /\ 3 \in g_key_down)
    => /\ CountNote(out, "NoteOn", midi_fourbanks_key_to_note(3, 0)) = 1
       /\ g_midi_note_state[midi_fourbanks_key_to_note(3, 0)]
             = g_midi_velocity
       /\ 3 \in leds

\* The first tick, from the all-zero ledger, saw key 3 go down: Note-On 39
\* and the flush were sent, only entry 39 is set and LED bit 3 is lit.
C11_Witness ==
    /\ pc = "usbtask"
    /\ g_key_fourbanks_mode = "FOURBANKS_OFF"
    /\ g_led_keypress_enable
    /\ g_key_down = {3}
    /\ out = <<NoteEv(39, TRUE), FlushEv>>
    /\ \A n \in Notes : g_midi_note_state[n] = IF n = 39 THEN 127 ELSE 0
    /\ 3 \in leds

\* C15: after the events of a tick, when the mode is not External a
\* down-edge on pin i has sent exactly one Note-On 4+i and an up-edge
\* exactly one Note-Off 4+i (and a pin without an edge nothing); when the
\* mode is External no Note event for notes 4..7 was sent.
C15_ExpansionPins ==
    pc = "render" =>
        IF g_key_fourbanks_mode # "FOURBANKS_EXTERNAL"
        THEN \A i \in 0..3 :
                /\ CountNote(out, "NoteOn", MIDI_DIGITAL_NOTE + i)
                      = IF i \in g_exp_key_down THEN 1 ELSE 0
                /\ CountNote(out, "NoteOff", MIDI_DIGITAL_NOTE + i)
                      = IF i \in g_exp_key_up THEN 1 ELSE 0
        ELSE \A k \in 1..Len(out) :
                out[k].kind \in {"NoteOn", "NoteOff"}
                   => out[k].d1 \notin 4..7

\* Internal mode: pin 0 went down and pin 3 went up in one tick.
C15_Witness ==
    /\ pc = "render"
    /\ g_key_fourbanks_mode = "FOURBANKS_INTERNAL"
    /\ g_exp_key_down = {0}
    /\ g_exp_key_up = {3}
    /\ CountNote(out, "NoteOn", 4) = 1
    /\ CountNote(out, "NoteOff", 7) = 1

\* C16: after the events of a tick, in Ableton mode every playable key
\* with a down-edge has one raw CC (channel g_midi_channel+1, controller =
\* its note, value 127) beside its Note-On, every playable key with an
\* up-edge one raw CC with value 0 beside its Note-Off, and there are no
\* other raw CCs; in Default and Traktor mode there is no raw CC.
C16_RawCCAbleton ==
    pc = "render" =>
        IF g_device_mode = "ABLETON"
        THEN /\ \A i \in PlayKeydown(g_key_down) :
                   /\ CountNote(out, "NoteOn", PlayNote(i)) = 1
                   /\ CountRawCC(out, g_midi_channel + 1, PlayNote(i), 127)
                         = 1
             /\ \A i \in PlayKeyup(g_key_up) :
                   /\ CountNote(out, "NoteOff", PlayNote(i)) = 1
                   /\ CountRawCC(out, g_midi_channel + 1, PlayNote(i), 0) = 1
             /\ Cardinality(RawCCs)
                   = Cardinality(PlayKeydown(g_key_down) \cap 0..(keycount - 1))
                     + Cardinality(PlayKeyup(g_key_up) \cap 0..(keycount - 1))
        ELSE RawCCs = {}

\* Ableton, Fourbanks Off: key 3 went down and key 15 went up in one tick.
C16_Witness ==
    /\ pc = "render"
    /\ g_device_mode = "ABLETON"
    /\ out = <<RawCCEv(3, 39, 127), NoteEv(39, TRUE), NoteEv(51, FALSE),
               RawCCEv(3, 51, 0), FlushEv>>


\* ------------------------------------------------------------------------
\* Properties of the whole loop: watchdog handshake, the tick while the
\* device is not configured, the flush
\* ------------------------------------------------------------------------
\* The variables a tick may change besides the flag: packets drained,
\* inputs read, events sent, LEDs written, ledger, bank, analog values and
\* clock counter.
tickvars == <<input_event, drained, clocks_seen, ledger_overrun, keyvars,
              analogvars, out, sounding, last_cc, ledvars, g_midi_note_state, g_key_bank_selected,
              g_led_groundfx_counter>>

\* C12: the flag is false whenever a tick starts and true whenever a tick
\* has returned (full tick or early exit); the loop iteration that follows
\* a returned tick acknowledges the watchdog once and clears the flag, so
\* there is exactly one acknowledgement per tick.
C12_WatchdogHandshake ==
    /\ [](pc = "task" => ~main_watchdog_flag)
    /\ [](pc = "usbtask" => main_watchdog_flag /\ wdt_resets = 0)
    /\ [](wdt_resets <= 1)
    /\ [][pc = "usbtask" => wdt_resets' = 1 /\ ~main_watchdog_flag']_vars
    /\ [][wdt_resets' > wdt_resets => pc = "usbtask" /\ pc' = "task"]_vars

\* The loop has acknowledged the watchdog for an early-exit tick and
\* cleared the flag; the next tick is about to start.
C12_Witness ==
    /\ pc = "task"
    /\ wdt_resets = 1
    /\ ~main_watchdog_flag
    /\ USB_DeviceState = "Unattached"
    /\ g_midi_note_state[40] = 100

\* C13: a tick started while the device is not configured sets the flag
\* and returns with every other variable of the engine unchanged; a tick
\* started while it is configured never takes the early exit, and when it
\* has returned the flush was sent and the LEDs are the render of the
\* state.
C13_NotConfiguredTick ==
    /\ [][(pc = "task" /\ USB_DeviceState # "Configured")
            => /\ main_watchdog_flag'
               /\ pc' = "usbtask"
               /\ UNCHANGED tickvars]_vars
    /\ [][(pc = "task" /\ USB_DeviceState = "Configured")
            => pc' \in {"drain", "render"}]_vars
    /\ []((pc = "usbtask" /\ USB_DeviceState = "Configured")
            => /\ out # <<>>
               /\ out[Len(out)] = FlushEv
               /\ leds = RenderLeds(g_midi_note_state, g_key_bank_selected,
                                    g_key_state))

\* The task has returned early while the device is off the bus, with a
\* note in the ledger, a key held and LEDs lit from earlier ticks.
C13_Witness ==
    /\ pc = "usbtask"
    /\ USB_DeviceState = "Unattached"
    /\ main_watchdog_flag
    /\ out = <<>>
    /\ g_midi_note_state[40] = 100
    /\ g_key_state = {4}
    /\ 4 \in leds

\* C14: when the events of a configured tick have been sent and the LEDs
\* are about to be rendered, the flush is the last event of the tick and
\* the only flush; the render sends nothing.
C14_FlushOnceLast ==
    /\ [](pc = "render" => out # <<>>)
    /\ [](out # <<>> =>
            /\ out[Len(out)] = FlushEv
            /\ \A k \in 1..(Len(out) - 1) : out[k].kind # "Flush")
    /\ [][pc = "render" => out' = out]_vars

\* A tick has sent a digital note, an analog CC, a bank note, a key note
\* and a combo note, and then the flush.
C14_Witness ==
    /\ pc = "render"
    /\ Len(out) = 6
    /\ out[1] = NoteEv(4, TRUE)
    /\ out[2].kind = "CC"
    /\ out[3] = NoteEv(1, TRUE)
    /\ out[4] = NoteEv(48, TRUE)
    /\ out[5] = NoteEv(8, TRUE)
    /\ out[6] = FlushEv


\* ------------------------------------------------------------------------
\* Specification of the packets the demultiplexer drops: Clock and a
\* Note-On on the receive channel build up the counter and the ledger, a
\* bank-select key selects bank 1; the other packets are realtime messages
\* the task does not handle, notes on another channel and other commands.
\* ------------------------------------------------------------------------
DropPackets ==
    [Command : {15}, Data1 : {248, 254}, Data2 : {0}, Data3 : {0}]
    \cup [Command : {9}, Data1 : {146, 147}, Data2 : {40}, Data3 : {100}]
    \cup [Command : {8}, Data1 : {131}, Data2 : {40}, Data3 : {0}]
    \cup [Command : {11}, Data1 : {178}, Data2 : {40}, Data3 : {0}]
    \cup [Command : {3}, Data1 : {242}, Data2 : {40}, Data3 : {0}]

InitDrop ==
    InitWith({"Configured"}, {"FOURBANKS_INTERNAL"}, {"DEFAULT"}, {2}, {127},
             {TRUE}, {FALSE}, {FALSE}, {{}})

ReceiveDrop == \E ev \in DropPackets : ReceivePacket(ev)

BankOneTick ==
    \E keys \in {{}, {1}} : ScanEmit(keys, {}, NoSamples, "COMBO_NONE")

NextDrop == ReceiveDrop \/ BankOneTick \/ Render \/ LoopConfigured

SpecDrop == InitDrop /\ [][NextDrop]_vars

\* A packet the demultiplexer does not recognise.
Unrecognised(ev) ==
    \/ ev.Command \in {8, 9} /\ ev.Data1 % 16 # g_midi_channel
    \/ ev.Command \notin {4, 5, 6, 7, 8, 9, 15}
    \/ ev.Command = 15 /\ ev.Data1 \notin {248, 250, 252}

\* C17: the receipt of a Note-On/Note-Off on another channel, of a packet
\* with a command other than 0x4-0x9 and 0xF, or of a command-0xF packet
\* that is not Clock, Start or Stop leaves the ledger, the clock counter
\* and the selected bank unchanged, and the task is still in its receive
\* loop.
C17_UnrecognisedDropped ==
    [][(drained' = drained + 1 /\ Unrecognised(input_event'))
         => /\ UNCHANGED <<g_midi_note_state, g_led_groundfx_counter,
                           g_key_bank_selected>>
            /\ pc' = "drain"]_vars

\* A Note-Off for note 40 on another channel has been received while
\* note 40 is on in the ledger, the counter is 5 and bank 1 is selected.
C17_Witness ==
    /\ pc = "drain"
    /\ input_event = [Command |-> 8, Data1 |-> 131, Data2 |-> 40,
                      Data3 |-> 0]
    /\ g_midi_note_state[40] = 100
    /\ g_led_groundfx_counter = 5
    /\ g_key_bank_selected = 1


\* ------------------------------------------------------------------------
\* Specification of the LED renderer in the banked modes: bank-select keys
\* and a playable key move, Note-On packets for a digital note and for a
\* note of bank 0's slice arrive.
\* ------------------------------------------------------------------------
LedPackets ==
    [Command : {9}, Data1 : {146}, Data2 : {4, 37}, Data3 : {0, 100}]

InitLeds ==
    InitWith({"Configured"}, {"FOURBANKS_INTERNAL", "FOURBANKS_EXTERNAL"},
             {"DEFAULT"}, {2}, {127}, {TRUE}, {FALSE}, {FALSE}, {{}})

LedKeyInputs ==
    IF g_key_fourbanks_mode = "FOURBANKS_INTERNAL"
    THEN SUBSET {0, 1, 4} ELSE SUBSET {1}

LedExpInputs ==
    IF g_key_fourbanks_mode = "FOURBANKS_EXTERNAL"
    THEN SUBSET {0, 1} ELSE {{}}

ReceiveLed == \E ev \in LedPackets : ReceivePacket(ev)

LedTick ==
    \E keys \in LedKeyInputs, expkeys \in LedExpInputs :
        ScanEmit(keys, expkeys, NoSamples, "COMBO_NONE")

NextLeds == ReceiveLed \/ LedTick \/ Render \/ LoopConfigured

SpecLeds == InitLeds /\ [][NextLeds]_vars

\* C18: after a rendered tick in Internal mode the main LED bits 0..3 are
\* exactly the bit of the selected bank; after a rendered tick in External
\* mode the expansion LED pattern is exactly the bit of the selected bank.
C18_BankIndicator ==
    pc = "usbtask" =>
        /\ g_key_fourbanks_mode = "FOURBANKS_INTERNAL"
              => leds \cap 0..3 = {g_key_bank_selected}
        /\ g_key_fourbanks_mode = "FOURBANKS_EXTERNAL"
              => exp_key_led = {g_key_bank_selected}

\* Internal mode: bank 1 is selected while the select keys of banks 0 and
\* 1 and a playable key are held and a note of a slice is on.
C18_Witness ==
    /\ pc = "usbtask"
    /\ g_key_fourbanks_mode = "FOURBANKS_INTERNAL"
    /\ g_key_bank_selected = 1
    /\ g_key_state = {0, 1, 4}
    /\ g_midi_note_state[37] = 100
    /\ leds \cap 0..3 = {1}


\* ------------------------------------------------------------------------
\* Specification of the Traktor zone notes and the LEDs: in the three
\* Fourbanks modes the sliders of channels 0 and 1 move between the bottom,
\* the middle and the top of their range, bank 3 can be selected, a key and
\* an expansion pin move.
\* ------------------------------------------------------------------------
InitZone ==
    InitWith({"Configured"},
             {"FOURBANKS_OFF", "FOURBANKS_INTERNAL", "FOURBANKS_EXTERNAL"},
             {"TRAKTOR"}, {2}, {127}, {TRUE, FALSE}, {FALSE}, {FALSE}, {{}})

ZoneInputs ==
    {[i \in Channels |-> IF i = 0 THEN s0 ELSE IF i = 1 THEN s1 ELSE Steady(0)]
        : s0 \in {Steady(0), Steady(512), Steady(1023)},
          s1 \in {Steady(0), Steady(512)}}

ZoneKeyInputs ==
    IF g_key_fourbanks_mode = "FOURBANKS_INTERNAL"
    THEN SUBSET {3} ELSE SUBSET {15}

ZoneTick ==
    \E keys \in ZoneKeyInputs, expkeys \in SUBSET {3},
       samples \in ZoneInputs :
        ScanEmit(keys, expkeys, samples, "COMBO_NONE")

NextZone == ZoneTick \/ Render \/ LoopConfigured

SpecZone == InitZone /\ [][NextZone]_vars

\* The analog zone notes.
ZoneNotes == MIDI_ANALOG_NOTE..(MIDI_ANALOG_NOTE + 2 * NUM_ANALOG - 1)

\* The LED patterns the render produces from a ledger in the state.
RenderedWith(ledger) ==
    <<RenderLeds(ledger, g_key_bank_selected, g_key_state),
      RenderExpLeds(ledger, g_key_bank_selected, g_exp_key_state)>>

\* The ledger with the entry of zone note n changed between zero and
\* nonzero.
ZoneToggled(n) ==
    [g_midi_note_state EXCEPT ![n] = IF @ > 0 THEN 0 ELSE g_midi_velocity]

\* C19 as stated: after a rendered tick with a zone note on in the ledger,
\* changing the ledger entry of some zone note between zero and nonzero
\* changes the main or the expansion LED pattern of the render.
C19_ZoneNotesRendered ==
    (pc = "usbtask" /\ \E n \in ZoneNotes : g_midi_note_state[n] > 0)
    => \E n \in ZoneNotes :
          RenderedWith(ZoneToggled(n)) # <<leds, exp_key_led>>

\* C19 amended: in every Fourbanks mode, after a rendered tick, the main
\* and expansion LED patterns are those the render produces from the
\* ledger with any zone note's entry changed between zero and nonzero: the
\* render does not read the entries of notes 100..107.
C19_ZoneNotesNotRendered ==
    pc = "usbtask" =>
        \A n \in ZoneNotes :
            RenderedWith(ZoneToggled(n)) = <<leds, exp_key_led>>

\* External mode with bank 3 selected (slice 84..99): note_a of channel 0
\* and note_b of channel 0 are on in the ledger after a rendered tick.
C19_Witness ==
    /\ pc = "usbtask"
    /\ g_key_fourbanks_mode = "FOURBANKS_EXTERNAL"
    /\ g_key_bank_selected = 3
    /\ g_midi_note_state[note_a(0)] = g_midi_velocity
    /\ g_midi_note_state[note_b(0)] = g_midi_velocity


\* ------------------------------------------------------------------------
\* The order of the events of a tick
\* ------------------------------------------------------------------------
\* An event of the expansion pins (notes 4..7) or of the analog channels
\* (a CC, a zone note).
ExpOrAnalogEvent(e) ==
    \/ e.kind = "CC"
    \/ e.kind \in {"NoteOn", "NoteOff"} /\ e.d1 \in 4..7 \cup ZoneNotes

\* An event of the bank update (notes 0..3).
BankEvent(e) == e.kind \in {"NoteOn", "NoteOff"} /\ e.d1 \in 0..3

\* C20: when the events of a configured tick have been sent, the events of
\* the bank update come before every event of the expansion pins and of
\* the analog channels (nothing of those is sent before the bank state is
\* updated), and the flush comes after all of them.
C20_PhaseOrder ==
    pc = "render" =>
        /\ \A j, k \in 1..Len(out) :
              (ExpOrAnalogEvent(out[j]) /\ BankEvent(out[k])) => k < j
        /\ \A j \in 1..Len(out) :
              (ExpOrAnalogEvent(out[j]) \/ BankEvent(out[j]))
                 => j < Len(out) /\ out[Len(out)] = FlushEv


\* ------------------------------------------------------------------------
\* Release of a bank-select key
\* ------------------------------------------------------------------------
\* The bank-select bits with an up-edge in the last scan.
SelectUp ==
    IF g_key_fourbanks_mode = "FOURBANKS_INTERNAL" THEN g_key_up \cap 0..3
    ELSE IF g_key_fourbanks_mode = "FOURBANKS_EXTERNAL"
    THEN g_exp_key_up \cap 0..3 ELSE {}

\* C21: in a banked mode a tick sends Note-Off for the bank selected at the
\* end of the bank update exactly when that bank's bit is among the released
\* bank-select bits; the release of the key of any other bank sends no
\* Note-Off for it; and a tick without a bank-select down-edge leaves the
\* selected bank as it was.
C21_BankRelease ==
    /\ [](pc = "render" /\ Banked =>
            /\ CountNote(out, "NoteOff", g_key_bank_selected)
                 = (IF g_key_bank_selected \in SelectUp THEN 1 ELSE 0)
            /\ \A b \in SelectUp \ {g_key_bank_selected} :
                   CountNote(out, "NoteOff", b) = 0)
    /\ [][EmitStep /\ Banked /\ SelectDown' = {}
            => g_key_bank_selected' = g_key_bank_selected]_vars

\* Bank 2 is selected and the keys of banks 1 and 2 are released together:
\* only the Note-Off of bank 2 is sent.
C21_Witness ==
    /\ pc = "render" /\ Banked
    /\ g_key_bank_selected = 2
    /\ SelectUp = {1, 2}
    /\ SelectDown = {}
    /\ CountNote(out, "NoteOff", 2) = 1
    /\ CountNote(out, "NoteOff", 1) = 0


\* ------------------------------------------------------------------------
\* The primary CC of an analog channel
\* ------------------------------------------------------------------------
\* The new average of channel i is within the dead-band of the stored value.
InDeadBand(i) == Abs(ReadAverage(i)' - g_exp_analog_prev[i]) < 8

\* The 7-bit value of channel i after the dead-band test of this tick.
NewValue7(i) ==
    (IF InDeadBand(i) THEN g_exp_analog_prev[i] ELSE ReadAverage(i)') \div 8

\* The tick's events that belong to channel i.
ChannelEvents(evs, i) ==
    {k \in 1..Len(evs) :
        \/ evs[k].kind = "CC" /\ evs[k].d1 \in {cc_a(i), cc_b(i)}
        \/ evs[k].kind \in {"NoteOn", "NoteOff"}
             /\ evs[k].d1 \in {note_a(i), note_b(i)}}

\* C22: in every tick and for each channel i, one CC 16+2i is sent exactly
\* when the 7-bit value differs from the stored 7-bit value and lies in
\* 3..124, and its data is remap(value, 3, 124, 0, 127); a tick whose new
\* average is within the dead-band sends no CC and no Note event of that
\* channel, in every device mode.
C22_PrimaryCC ==
    [][EmitStep =>
        \A i \in Channels :
            LET value == NewValue7(i)
                sends == value # Stored7(i) /\ value \in 3..124
            IN /\ CountNote(out', "CC", cc_a(i)) = (IF sends THEN 1 ELSE 0)
               /\ sends => CountCC(out', cc_a(i),
                                   remap(value, 3, 124, 0, 127)) = 1
               /\ InDeadBand(i) => ChannelEvents(out', i) = {}]_vars

\* Channel 0 has moved to mid-range (7-bit value 64) and CC 16 carries 64,
\* while channel 1 rests within its dead-band without any event.
C22_Witness ==
    /\ pc = "render"
    /\ Stored7(0) = 64
    /\ CountCC(out, cc_a(0), remap(64, 3, 124, 0, 127)) = 1
    /\ Stored7(1) = 60 /\ ReadAverage(1) = 480
    /\ ChannelEvents(out, 1) = {}


\* ------------------------------------------------------------------------
\* The slice of the ledger read by the main LED render
\* ------------------------------------------------------------------------
\* The notes of the selected bank: 12 in Internal mode, 16 in External mode.
ActiveSlice ==
    IF g_key_fourbanks_mode = "FOURBANKS_INTERNAL"
    THEN (MIDI_BASE_NOTE + 12 * g_key_bank_selected)
            .. (MIDI_BASE_NOTE + 12 * g_key_bank_selected + 11)
    ELSE (MIDI_BASE_NOTE + 16 * g_key_bank_selected)
            .. (MIDI_BASE_NOTE + 16 * g_key_bank_selected + 15)

\* The ledger with the entry of note n changed between zero and nonzero.
LedgerToggled(n) ==
    [g_midi_note_state EXCEPT ![n] = IF @ > 0 THEN 0 ELSE g_midi_velocity]

\* C23: after a rendered tick in a banked mode the main LED pattern is the
\* one computed from the current ledger, selected bank and key state, and
\* it is the same for the ledger with the entry of any note outside the
\* selected bank's slice (12 notes from 36+12b in Internal mode, 16 notes
\* from 36+16b in External mode) changed between zero and nonzero.
C23_ActiveSliceIsolation ==
    (pc = "usbtask" /\ Banked) =>
        /\ leds = RenderLeds(g_midi_note_state, g_key_bank_selected,
                             g_key_state)
        /\ \A n \in Notes \ ActiveSlice :
              RenderLeds(LedgerToggled(n), g_key_bank_selected, g_key_state)
                = leds

\* Internal mode with bank 1 selected and no key held: note 37 of bank 0's
\* slice is on in the ledger and only the bank LED is lit.
C23_Witness ==
    /\ pc = "usbtask"
    /\ g_key_fourbanks_mode = "FOURBANKS_INTERNAL"
    /\ g_key_bank_selected = 1
    /\ g_key_state = {}
    /\ g_midi_note_state[37] = 100
    /\ leds = {1}


\* ------------------------------------------------------------------------
\* Playable-key notes across a bank switch
\* ------------------------------------------------------------------------
\* The playable keys held in the last scan (key matrix numbers).
PlayableHeld ==
    IF g_key_fourbanks_mode = "FOURBANKS_INTERNAL"
    THEN g_key_state \cap 4..15 ELSE g_key_state

\* The notes of key k in the four banks.
KeyNotes(k) == {midi_fourbanks_key_to_note(k, b) : b \in 0..3}

\* C24: in a banked mode the Note-Off of a playable key's up-edge carries
\* the note of the Note-On of its down-edge, also across a bank switch, so
\* after every tick each playable-key note (36..99) that is on at the
\* receiver is a note of a playable key that is still held.
C24_NotePairing ==
    (pc = "render" /\ Banked) =>
        \A n \in sounding \cap 36..99 :
            \E k \in PlayableHeld : n \in KeyNotes(k)


\* ------------------------------------------------------------------------
\* Specification of the ledger's bounds: Note-On and Note-Off packets on
\* and off the receive channel whose note byte runs over the whole byte
\* range, the ends of the ledger and the bytes past it included.
\* ------------------------------------------------------------------------
OverrunPackets ==
    [Command : {9, 8}, Data1 : {146, 147}, Data2 : {0, 127, 128, 255},
     Data3 : {0, 100}]

ReceiveAnyNote == \E ev \in OverrunPackets : ReceivePacket(ev)

NextOverrun == ReceiveAnyNote \/ QuietTick \/ Render \/ LoopConfigured

SpecOverrun == InitDemux /\ [][NextOverrun]_vars

\* C25: Note packets on the receive channel only ever write the ledger
\* entries 0..127: whatever the note byte (0..255), no byte past the end of
\* the 128-entry ledger is ever written.
C25_NoteRange == ledger_overrun = {}


\* ------------------------------------------------------------------------
\* The range of the selected bank
\* ------------------------------------------------------------------------
\* C26: the selected bank is always one of 0..3; it changes only in a tick
\* with a bank-select down-edge in a banked mode; and in Fourbanks Off mode
\* it is 0 after every configured tick and the tick sends no bank Note
\* event (notes 0..3), whatever keys or expansion pins change.
C26_BankRange ==
    /\ [](g_key_bank_selected \in 0..3)
    /\ [][g_key_bank_selected' # g_key_bank_selected
            => EmitStep /\ Banked /\ SelectDown' # {}]_vars
    /\ []((g_key_fourbanks_mode = "FOURBANKS_OFF"
             /\ pc \in {"render", "usbtask"})
            => /\ g_key_bank_selected = 0
               /\ \A k \in 1..Len(out) : ~BankEvent(out[k]))

\* Fourbanks Off: key 3 and expansion pin 0 go down in one tick; their
\* notes 39 and 4 are sent and the bank stays 0.
C26_Witness ==
    /\ pc = "render"
    /\ g_key_fourbanks_mode = "FOURBANKS_OFF"
    /\ g_key_down = {3}
    /\ 0 \in g_exp_key_down
    /\ g_key_bank_selected = 0
    /\ CountNote(out, "NoteOn", 39) = 1
    /\ CountNote(out, "NoteOn", 4) = 1


\* ------------------------------------------------------------------------
\* The range of the analog values
\* ------------------------------------------------------------------------
\* C27: for all raw ADC samples in 0..1023 and either setting of the
\* channel inversion, the smoothed value of every channel stays within
\* 0..1023 and its reduced value, used for the zone tests and the CC,
\* within 0..127.
C27_AnalogRange ==
    \A i \in Channels :
        /\ g_exp_analog_prev[i] \in 0..1023
        /\ Stored7(i) \in 0..127


\* ------------------------------------------------------------------------
\* The end stops of the primary CC
\* ------------------------------------------------------------------------
\* C28: for each channel that has sent a primary CC (16+2i), whenever the
\* 7-bit value rests in the bottom dead zone (below 3) after a tick the last
\* primary CC value sent is 0, and whenever it rests in the top dead zone
\* (above 124) the last primary CC value sent is 127, also when the value
\* moved into the dead zone in a single tick from well inside the range.
C28_EndStops ==
    pc = "render" =>
        \A i \in Channels :
            last_cc[i] # -1 =>
                /\ Stored7(i) < NOTEON_LOW => last_cc[i] = 0
                /\ Stored7(i) > NOTEON_HIGH => last_cc[i] = 127

=============================================================================
